---------------------------- MODULE Spec2Model ----------------------------
(***************************************************************************)
(* The flaky-test detector: the CLI driver (main), the file discoverer     *)
(* (findTestFiles), the scanner (scanFile, isLikelyMocked, extractContext),*)
(* the aggregator (scanDirectory) and the two reporters (formatAsMarkdown, *)
(* formatAsJson), as one sequential program with a program counter.        *)
(*                                                                         *)
(* Text.  A file's content is a sequence of lexemes; every lexeme has its  *)
(* real text (LexText), and offsets, lengths, newlines and matched texts   *)
(* are computed on characters.  A regular expression is represented by the *)
(* strings of its language that the lexemes can produce, and is searched   *)
(* for character by character inside each lexeme.  Every lexeme ends in    *)
(* ';', a newline or a blank, so no match of any expression of the program *)
(* spans two lexemes.                                                      *)
(*                                                                         *)
(* Paths are sequences of names: path.join(dir, name) is Append(dir, name) *)
(* and path.basename is the last name.                                     *)
(***************************************************************************)
EXTENDS Integers, Sequences, FiniteSets, Bags, TLC

\* ------------------------------------------------------------------ bounds

\* longest file content, in lexemes
MaxLen == 3
\* longest argument list
MaxArgs == 3
\* deepest nesting of directories below the scanned root
MaxDepth == 2

\* --------------------------------------------------------- program constants

\* isLikelyMocked: content.substring(Math.max(0, matchIndex - 2000), matchIndex)
LookBack == 2000
\* extractContext: contextSize = 3
ContextSize == 3

\* ------------------------------------------------------------------- helpers

Max(a, b) == IF a >= b THEN a ELSE b
Min(a, b) == IF a <= b THEN a ELSE b

\* String.prototype.startsWith / endsWith
startsWith(s, p) == Len(s) >= Len(p) /\ SubSeq(s, 1, Len(p)) = p
endsWith(s, p) == Len(s) >= Len(p) /\ SubSeq(s, Len(s) - Len(p) + 1, Len(s)) = p

\* s repeated n times
RECURSIVE Rep(_, _)
Rep(s, n) ==
  IF n = 0 THEN ""
  ELSE LET h == Rep(s, n \div 2)
       IN  IF n % 2 = 1 THEN h \o h \o s ELSE h \o h

\* the elements of a finite set of integers, ascending
RECURSIVE Ascending(_)
Ascending(S) ==
  IF S = {} THEN <<>>
  ELSE LET m == CHOOSE x \in S : \A y \in S : x <= y
       IN  <<m>> \o Ascending(S \ {m})

RECURSIVE Flatten(_)
Flatten(ss) == IF ss = <<>> THEN <<>> ELSE Head(ss) \o Flatten(Tail(ss))

\* the strings of a sequence, concatenated
RECURSIVE Concat(_)
Concat(strs) ==
  IF Len(strs) = 0 THEN ""
  ELSE IF Len(strs) = 1 THEN strs[1]
  ELSE LET h == Len(strs) \div 2
       IN  Concat(SubSeq(strs, 1, h)) \o Concat(SubSeq(strs, h + 1, Len(strs)))

RECURSIVE SumSeq(_)
SumSeq(ns) == IF ns = <<>> THEN 0 ELSE Head(ns) + SumSeq(Tail(ns))

\* ------------------------------------------------------------------ lexemes

\* the length of blank text that puts the start of a signature exactly LookBack
\* characters before what follows it
PadLen == LookBack - Len("vi.useFakeTimers();")

Lexemes ==
  {"ttl", "trunc", "timeout", "sleep", "now", "rand", "fake", "mockd", "nl", "pad", "pad1"}

LexText(t) ==
  CASE t = "ttl"     -> "ttlSeconds: 1;"
    [] t = "trunc"   -> "Math.floor(Date.now() / 1000);"
    [] t = "timeout" -> "setTimeout(fn,\n50);"
    [] t = "sleep"   -> "sleep(10);"
    [] t = "now"     -> "Date.now();"
    [] t = "rand"    -> "Math.random();"
    [] t = "fake"    -> "vi.useFakeTimers();"
    [] t = "mockd"   -> "MOCKDATE;"
    [] t = "nl"      -> "\n"
    [] t = "pad"     -> Rep(" ", PadLen)
    [] t = "pad1"    -> Rep(" ", PadLen + 1)

LexLen == [t \in Lexemes |-> Len(LexText(t))]

\* ---------------------------------------------------------- pattern catalog

FLAKY_PATTERNS == <<
  [name |-> "1-second TTL",
   regex |-> {"ttlSeconds: 1", "ttlSeconds = 1", "ttlseconds: 1", "ttlSecond=1"},
   severity |-> "high",
   risk |-> "1-second TTL causes second-boundary race conditions. Tests may pass or fail depending on when they cross the second boundary.",
   fix |-> "Use vi.useFakeTimers() to control time, or increase TTL to 5+ seconds for real-time tests."],
  [name |-> "Second truncation",
   regex |-> {"Math.floor(Date.now() / 1000)", "Math.floor(Date.now()/1000)"},
   severity |-> "high",
   risk |-> "Second truncation creates edge cases at second boundaries. A test starting at X.999s may see different values than expected.",
   fix |-> "Mock Date.now() with vi.useFakeTimers() and vi.setSystemTime() for deterministic timestamps."],
  [name |-> "Very short setTimeout",
   regex |-> {"setTimeout(fn,\n50)", "setTimeout(fn, 50)"},
   severity |-> "high",
   risk |-> "Timeouts under 100ms are unreliable across different machines and CI environments.",
   fix |-> "Use vi.useFakeTimers() and vi.advanceTimersByTime() instead of real timeouts."],
  [name |-> "Short delay/sleep",
   regex |-> {"sleep(10)", "delay(10)", "wait(5)"},
   severity |-> "high",
   risk |-> "Very short delays are unreliable and cause race conditions.",
   fix |-> "Use vi.useFakeTimers() or await specific conditions instead of arbitrary delays."],
  [name |-> "Unmocked Date.now()",
   regex |-> {"Date.now()", "Date.now( )"},
   severity |-> "medium",
   risk |-> "Real time in tests causes non-determinism. Tests may fail near second/minute boundaries.",
   fix |-> "Mock with vi.useFakeTimers() and vi.setSystemTime(new Date('2024-01-01T12:00:00Z'))."],
  [name |-> "Unmocked new Date()",
   regex |-> {"new Date()"},
   severity |-> "medium",
   risk |-> "Real date creates non-deterministic behavior. Timezone and time-of-day can affect results.",
   fix |-> "Mock with vi.useFakeTimers() or pass explicit date values to constructors."],
  [name |-> "Low timeout value",
   regex |-> {"timeout: 10", "timeout = 5"},
   severity |-> "medium",
   risk |-> "Low timeout values (under 100ms) cause race conditions in CI environments with variable load.",
   fix |-> "Increase timeout to 1000+ ms or use vi.useFakeTimers() for timeout-dependent logic."],
  [name |-> "setInterval without cleanup",
   regex |-> {"setInterval(fn, 100)"},
   severity |-> "medium",
   risk |-> "Intervals without cleanup can leak between tests and cause interference.",
   fix |-> "Store interval ID and call clearInterval in afterEach/cleanup, or use vi.useFakeTimers()."],
  [name |-> "Promise.race without timeout",
   regex |-> {"Promise.race([a, b])"},
   severity |-> "medium",
   risk |-> "Promise.race can hang indefinitely if no timeout promise is included.",
   fix |-> "Always include a timeout promise: Promise.race([operation(), timeout(5000)])."],
  [name |-> "Unseeded Math.random()",
   regex |-> {"Math.random()", "Math.random( )"},
   severity |-> "low",
   risk |-> "Random values without seeding cause non-reproducible test behavior.",
   fix |-> "Use a seeded random generator or mock Math.random with vi.spyOn(Math, 'random')."],
  [name |-> "process.nextTick in tests",
   regex |-> {"process.nextTick("},
   severity |-> "low",
   risk |-> "Timing-dependent assertions using nextTick can be order-dependent.",
   fix |-> "Use await flushPromises() or explicit async/await patterns."],
  [name |-> "Hardcoded port numbers",
   regex |-> {"port: 3000", "PORT = 8080"},
   severity |-> "low",
   risk |-> "Hardcoded ports can conflict when tests run in parallel.",
   fix |-> "Use port 0 for random available port, or use getPort() utility."],
  [name |-> "File system temp paths",
   regex |-> {"'/tmp/x'"},
   severity |-> "low",
   risk |-> "Shared temp paths can conflict between parallel test runs.",
   fix |-> "Use os.tmpdir() with unique subdirectories, or use tmp-promise package."]
>>

\* isLikelyMocked's mockPatterns, in order; /mockDate/i by its spellings
mockPatterns == <<
  {"vi.useFakeTimers"},
  {"jest.useFakeTimers"},
  {"vi.setSystemTime"},
  {"jest.setSystemTime"},
  {"vi.spyOn(Date", "vi.spyOn( Date"},
  {"jest.spyOn(Date", "jest.spyOn( Date"},
  {"mockDate", "MockDate", "mockdate", "MOCKDATE"},
  {"MockDate"}
>>


\* ------------------------------------------------------------------- state

VARIABLES
  args,           \* process.argv.slice(2)
  tree,           \* the entries of the working directory (the file system)
  pc,             \* where main is
  jsonOutput, ciMode, quiet, help,   \* main's flags
  targetDir,      \* main's targetDir
  stack,          \* findTestFiles' active calls: <<[dir, entries, i]>>, innermost last
  visited,        \* the directories findTestFiles has read
  files,          \* findTestFiles' accumulator `files`
  fileIdx,        \* scanDirectory's position in testFiles
  allDetections,  \* scanDirectory's allDetections
  byFile,         \* scanDirectory's byFile: <<[key, value]>> in insertion order
  result,         \* main's result (a ScanResult), NoResult before the scan returns
  stdout,         \* what console.log wrote
  stderr,         \* what console.error and the runtime wrote
  exitCode        \* the process's exit status, -1 while it runs

vars ==
  <<args, tree, pc, jsonOutput, ciMode, quiet, help, targetDir, stack, visited,
    files, fileIdx, allDetections, byFile, result, stdout, stderr, exitCode>>

\* --------------------------------------------------------------- file system

\* process.cwd()
cwd == <<"w">>

\* a file system entry; a file has content, a directory has entries
File(name, content, readable) ==
  [name |-> name, kind |-> "file", readable |-> readable, content |-> content, entries |-> <<>>]
Dir(name, entries, readable) ==
  [name |-> name, kind |-> "dir", readable |-> readable, content |-> <<>>, entries |-> entries]
\* neither a directory nor a regular file (a symbolic link, a socket)
Other(name) ==
  [name |-> name, kind |-> "other", readable |-> TRUE, content |-> <<>>, entries |-> <<>>]

Missing == [name |-> "", kind |-> "missing", readable |-> FALSE, content |-> <<>>, entries |-> <<>>]

\* the entry a path below an entry list names, Missing if there is none
RECURSIVE Resolve(_, _)
Resolve(entries, rel) ==
  LET hit == {k \in 1..Len(entries) : entries[k].name = Head(rel)}
  IN  IF hit = {} THEN Missing
      ELSE LET e == entries[CHOOSE k \in hit : TRUE]
           IN  IF Len(rel) = 1 THEN e
               ELSE IF e.kind = "dir" THEN Resolve(e.entries, Tail(rel))
               ELSE Missing

\* the entry an absolute path names
Lookup(path) ==
  IF Len(path) < Len(cwd) \/ SubSeq(path, 1, Len(cwd)) # cwd THEN Missing
  ELSE IF path = cwd THEN Dir("w", tree, TRUE)
  ELSE Resolve(tree, SubSeq(path, Len(cwd) + 1, Len(path)))

\* fs.existsSync
existsSync(path) == Lookup(path).kind # "missing"

\* path.join(dir, entry.name), path.resolve(dirArg), path.basename(file)
join(dir, name) == Append(dir, name)
resolve(dirArg) == join(cwd, dirArg)
basename(path) == path[Len(path)]

\* a path as the string the program holds
RECURSIVE PathString(_)
PathString(path) ==
  IF path = <<>> THEN "" ELSE "/" \o Head(path) \o PathString(Tail(path))

\* ---------------------------------------------------------- text of a content

\* every occurrence of one of the strings lits in text: [index (from 0), len]
Occurrences(text, lits) ==
  {[index |-> p - 1, len |-> Len(l)] :
     <<p, l>> \in {pl \in (1..Len(text)) \X lits :
                     pl[1] + Len(pl[2]) - 1 <= Len(text)
                     /\ SubSeq(text, pl[1], pl[1] + Len(pl[2]) - 1) = pl[2]}}

\* RegExp.prototype.exec with the g flag, repeated until null: the matches from
\* lastIndex on, leftmost first, each search resuming at the end of the last match
RECURSIVE execFrom(_, _, _)
execFrom(text, occ, lastIndex) ==
  LET ahead == {o \in occ : o.index >= lastIndex}
  IN  IF ahead = {} THEN <<>>
      ELSE LET first == CHOOSE o \in ahead :
                          \A q \in ahead :
                            o.index < q.index \/ (o.index = q.index /\ o.len >= q.len)
           IN  <<[index |-> first.index,
                  text |-> SubSeq(text, first.index + 1, first.index + first.len)]>>
               \o execFrom(text, occ, first.index + first.len)

execAll(text, lits) == execFrom(text, Occurrences(text, lits), 0)

\* the matches of each catalog rule inside each lexeme
LexHits ==
  [t \in Lexemes |->
     [r \in 1..Len(FLAKY_PATTERNS) |-> execAll(LexText(t), FLAKY_PATTERNS[r].regex)]]

\* the occurrences of each mock pattern inside each lexeme
LexMocks ==
  [t \in Lexemes |->
     [m \in 1..Len(mockPatterns) |-> Occurrences(LexText(t), mockPatterns[m])]]

\* the offsets of the newline characters inside each lexeme
LexNewlines ==
  [t \in Lexemes |-> {o.index : o \in Occurrences(LexText(t), {"\n"})}]

\* the offset of the k-th lexeme of a content, and the content's length
Offset(content, k) == SumSeq([j \in 1..(k - 1) |-> LexLen[content[j]]])
ContentLen(content) == Offset(content, Len(content) + 1)

\* content.substring(a, b), 0 <= a <= b: the pieces of lexemes in [a, b),
\* each [lex, from, to] with from < to offsets inside the lexeme
substring(content, a, b) ==
  LET piece(k) ==
        [lex |-> content[k],
         from |-> Max(0, a - Offset(content, k)),
         to |-> Min(LexLen[content[k]], b - Offset(content, k))]
      inside == {k \in 1..Len(content) : piece(k).from < piece(k).to}
  IN  [i \in 1..Cardinality(inside) |-> piece(Ascending(inside)[i])]

\* a piece cut at its newline characters
Segments(c) ==
  LET ns == Ascending({p \in LexNewlines[c.lex] : c.from <= p /\ p < c.to})
      starts == <<c.from>> \o [i \in 1..Len(ns) |-> ns[i] + 1]
      ends == ns \o <<c.to>>
  IN  [i \in 1..Len(starts) |-> SubSeq(LexText(c.lex), starts[i] + 1, ends[i])]

\* text.split("\n") of the text made of the pieces chunks, cur being the line so far
RECURSIVE splitFrom(_, _)
splitFrom(chunks, cur) ==
  IF chunks = <<>> THEN <<cur>>
  ELSE LET segs == Segments(Head(chunks))
           n == Len(segs)
       IN  IF n = 1 THEN splitFrom(Tail(chunks), cur \o segs[1])
           ELSE <<cur \o segs[1]>> \o SubSeq(segs, 2, n - 1)
                \o splitFrom(Tail(chunks), segs[n])

split(chunks) == splitFrom(chunks, "")

\* pattern.test(beforeContent) for the m-th mock pattern
test(m, chunks) ==
  \E k \in 1..Len(chunks) :
    \E o \in LexMocks[chunks[k].lex][m] :
      chunks[k].from <= o.index /\ o.index + o.len <= chunks[k].to

\* the while loop of pattern.regex.exec(content) from lastIndex = 0: every match
\* of the r-th rule in content, in ascending offset
regexExecAll(content, r) ==
  Flatten([k \in 1..Len(content) |->
             [i \in 1..Len(LexHits[content[k]][r]) |->
                [index |-> Offset(content, k) + LexHits[content[k]][r][i].index,
                 text |-> LexHits[content[k]][r][i].text]]])


\* ------------------------------------------------------------------ scanner

\* String(n).padStart(width)
padStart(str, width) == Rep(" ", Max(0, width - Len(str))) \o str

\* extractContext(lines, lineIndex, contextSize): lineIndex counts from 0
extractContext(lines, lineIndex, contextSize) ==
  LET start == Max(0, lineIndex - contextSize)
      end == Min(Len(lines), lineIndex + contextSize + 1)
  IN  [idx \in 1..Max(0, end - start) |->
         LET actualLineNum == start + (idx - 1) + 1
             marker == IF actualLineNum = lineIndex + 1 THEN ">" ELSE " "
         IN  marker \o " " \o padStart(ToString(actualLineNum), 4) \o ": "
             \o lines[start + idx]]

\* isLikelyMocked looking back to the start of the file
isLikelyMocked_wholePrefix(content, matchIndex) ==
  LET beforeContent == substring(content, 0, matchIndex)
  IN  \E m \in 1..Len(mockPatterns) : test(m, beforeContent)

\* isLikelyMocked(content, matchIndex)
isLikelyMocked(content, matchIndex) ==
  LET beforeContent == substring(content, Max(0, matchIndex - LookBack), matchIndex)
  IN  \E m \in 1..Len(mockPatterns) : test(m, beforeContent)

\* skipMatch without the exemption of the high rules
skipMatch_anySeverity(pattern, content, matchIndex) ==
  isLikelyMocked(content, matchIndex)

\* scanFile's test `pattern.severity !== "high" && isLikelyMocked(content, match.index)`
skipMatch(pattern, content, matchIndex) ==
  pattern.severity # "high" /\ isLikelyMocked(content, matchIndex)

\* lineNumberOf counting lines from 0
lineNumberOf_fromZero(content, matchIndex) ==
  LET beforeMatch == substring(content, 0, matchIndex)
  IN  Len(split(beforeMatch)) - 1

\* scanFile's lineNumber: content.substring(0, match.index).split("\n").length
lineNumberOf(content, matchIndex) ==
  LET beforeMatch == substring(content, 0, matchIndex)
  IN  Len(split(beforeMatch))

\* the Detection scanFile pushes for one accepted match
detectionOf(filePath, content, lines, pattern, match) ==
  LET lineNumber == lineNumberOf(content, match.index)
      lineIndex == lineNumber - 1
  IN  [file |-> filePath,
       line |-> lineNumber,
       pattern |-> pattern.name,
       matchedText |-> match.text,
       severity |-> pattern.severity,
       risk |-> pattern.risk,
       fix |-> pattern.fix,
       context |-> extractContext(lines, lineIndex, ContextSize)]

\* scanPattern pushing the accepted matches of a rule from the last to the first
scanPattern_lastFirst(filePath, content, lines, r) ==
  LET pattern == FLAKY_PATTERNS[r]
      matches == regexExecAll(content, r)
      accepted == {i \in 1..Len(matches) : ~skipMatch(pattern, content, matches[i].index)}
      n == Cardinality(accepted)
  IN  [j \in 1..n |->
         detectionOf(filePath, content, lines, pattern, matches[Ascending(accepted)[n + 1 - j]])]

\* the body of scanFile's `for (const pattern of FLAKY_PATTERNS)` for the r-th rule
scanPattern(filePath, content, lines, r) ==
  LET pattern == FLAKY_PATTERNS[r]
      matches == regexExecAll(content, r)
      accepted == {i \in 1..Len(matches) : ~skipMatch(pattern, content, matches[i].index)}
  IN  [j \in 1..Cardinality(accepted) |->
         detectionOf(filePath, content, lines, pattern, matches[Ascending(accepted)[j]])]

\* fs.readFileSync(filePath, "utf-8"): the content, or a throw
readFileSync(filePath) ==
  LET e == Lookup(filePath)
  IN  IF e.kind = "file" /\ e.readable
      THEN [ok |-> TRUE, content |-> e.content]
      ELSE [ok |-> FALSE, content |-> <<>>]

\* scanFile swallowing a failed read without a diagnostic
scanFile_silent(filePath) ==
  LET read == readFileSync(filePath)
  IN  IF read.ok
      THEN LET content == read.content
               lines == split(substring(content, 0, ContentLen(content)))
           IN  [detections |->
                  Flatten([r \in 1..Len(FLAKY_PATTERNS) |->
                             scanPattern(filePath, content, lines, r)]),
                errors |-> <<>>]
      ELSE [detections |-> <<>>, errors |-> <<>>]

\* scanFile(filePath): the detections it returns and what it writes to console.error
scanFile(filePath) ==
  LET read == readFileSync(filePath)
  IN  IF read.ok
      THEN LET content == read.content
               lines == split(substring(content, 0, ContentLen(content)))
           IN  [detections |->
                  Flatten([r \in 1..Len(FLAKY_PATTERNS) |->
                             scanPattern(filePath, content, lines, r)]),
                errors |-> <<>>]
      ELSE [detections |-> <<>>,
            errors |-> <<[what |-> "Error scanning", about |-> PathString(filePath)]>>]


\* ---------------------------------------------------------------- aggregator

NoResult == [scannedFiles |-> -1]

\* byFile.set(file, fileDetections) on a Map kept in insertion order
mapSet(map, key, value) ==
  IF \E k \in 1..Len(map) : map[k].key = key
  THEN [k \in 1..Len(map) |->
          IF map[k].key = key THEN [key |-> key, value |-> value] ELSE map[k]]
  ELSE Append(map, [key |-> key, value |-> value])

\* filterSeverity with the medium list taken as "not high"
filterSeverity_notHigh(detections, severity) ==
  LET keep == {k \in 1..Len(detections) :
                 IF severity = "medium" THEN detections[k].severity # "high"
                 ELSE detections[k].severity = severity}
  IN  [j \in 1..Cardinality(keep) |-> detections[Ascending(keep)[j]]]

\* allDetections.filter((d) => d.severity === severity)
filterSeverity(detections, severity) ==
  LET keep == {k \in 1..Len(detections) : detections[k].severity = severity}
  IN  [j \in 1..Cardinality(keep) |-> detections[Ascending(keep)[j]]]

\* the ScanResult scanDirectory returns
scanResult(testFiles, detections, groups) ==
  [scannedFiles |-> Len(testFiles),
   totalDetections |-> Len(detections),
   detections |-> detections,
   byFile |-> groups,
   bySeverity |-> [high |-> filterSeverity(detections, "high"),
                   medium |-> filterSeverity(detections, "medium"),
                   low |-> filterSeverity(detections, "low")]]

\* ----------------------------------------------------------------- reporters

\* lines.join(sep)
RECURSIVE joinLines(_, _)
joinLines(lines, sep) ==
  IF lines = <<>> THEN ""
  ELSE IF Len(lines) = 1 THEN lines[1]
  ELSE lines[1] \o sep \o joinLines(Tail(lines), sep)

\* (a TLA+ string cannot hold the backquote of the Markdown text: it is written ' below)
\* formatAsMarkdown's High Risk entries
mdHigh(detection) ==
  << "**" \o basename(detection.file) \o ":" \o ToString(detection.line) \o "**",
     "- Pattern: '" \o detection.matchedText \o "'",
     "- Risk: " \o detection.risk,
     "- Fix: " \o detection.fix,
     "\n'''typescript",
     joinLines(detection.context, "\n"),
     "'''\n" >>

\* formatAsMarkdown's Medium Risk entries
mdMedium(detection) ==
  << "**" \o basename(detection.file) \o ":" \o ToString(detection.line) \o "**",
     "- Pattern: '" \o detection.matchedText \o "'",
     "- Risk: " \o detection.risk,
     "- Fix: " \o detection.fix \o "\n" >>

\* formatAsMarkdown's Low Risk entries
mdLow(detection) ==
  << "- **" \o basename(detection.file) \o ":" \o ToString(detection.line) \o "**: '"
     \o detection.matchedText \o "'" >>

\* markdownLines without the early return on zero detections
markdownLines_noReturn(res) ==
  << "## Flaky Test Analysis\n",
     "Scanned **" \o ToString(res.scannedFiles) \o "** test files, found **"
     \o ToString(res.totalDetections) \o "** potential flaky patterns.\n" >>
  \o (IF res.totalDetections = 0
      THEN << "No flaky patterns detected. Your tests look deterministic!\n" >>
      ELSE <<>>)
  \o << "### Summary\n",
        "| Severity | Count |",
        "|----------|-------|",
        "| High | " \o ToString(Len(res.bySeverity.high)) \o " |",
        "| Medium | " \o ToString(Len(res.bySeverity.medium)) \o " |",
        "| Low | " \o ToString(Len(res.bySeverity.low)) \o " |",
        "",
        "### Recommended Actions\n",
        "5. Consider adding this check to CI to prevent new flaky patterns\n" >>

\* formatAsMarkdown's 'lines' when it returns
markdownLines(res) ==
  LET high == res.bySeverity.high
      medium == res.bySeverity.medium
      low == res.bySeverity.low
      header ==
        << "## Flaky Test Analysis\n",
           "Scanned **" \o ToString(res.scannedFiles) \o "** test files, found **"
           \o ToString(res.totalDetections) \o "** potential flaky patterns.\n" >>
  IN  IF res.totalDetections = 0
      THEN header \o << "No flaky patterns detected. Your tests look deterministic!\n" >>
      ELSE header
           \o << "### Summary\n",
                 "| Severity | Count |",
                 "|----------|-------|",
                 "| High | " \o ToString(Len(high)) \o " |",
                 "| Medium | " \o ToString(Len(medium)) \o " |",
                 "| Low | " \o ToString(Len(low)) \o " |",
                 "" >>
           \o (IF Len(high) > 0
               THEN << "### High Risk\n" >>
                    \o Flatten([k \in 1..Len(high) |-> mdHigh(high[k])])
               ELSE <<>>)
           \o (IF Len(medium) > 0
               THEN << "### Medium Risk\n" >>
                    \o Flatten([k \in 1..Len(medium) |-> mdMedium(medium[k])])
               ELSE <<>>)
           \o (IF Len(low) > 0
               THEN << "### Low Risk\n",
                       "<details><summary>Show " \o ToString(Len(low))
                       \o " low-risk patterns</summary>\n" >>
                    \o Flatten([k \in 1..Len(low) |-> mdLow(low[k])])
                    \o << "\n</details>\n" >>
               ELSE <<>>)
           \o << "### Recommended Actions\n" >>
           \o (IF Len(high) > 0
               THEN << "1. **Immediate**: Fix all HIGH severity issues before merging",
                       "2. Add 'vi.useFakeTimers()' in 'beforeEach' for time-dependent tests",
                       "3. Use 'vi.setSystemTime()' for deterministic date/time" >>
               ELSE <<>>)
           \o (IF Len(medium) > 0
               THEN << "4. Review MEDIUM severity patterns for potential issues" >>
               ELSE <<>>)
           \o << "5. Consider adding this check to CI to prevent new flaky patterns\n" >>

formatAsMarkdown(res) == joinLines(markdownLines(res), "\n")

\* jsonObject with the medium count taken from the low list
jsonObject_wrongCount(res) ==
  [scannedFiles |-> res.scannedFiles,
   totalDetections |-> res.totalDetections,
   summary |-> [high |-> Len(res.bySeverity.high),
                medium |-> Len(res.bySeverity.low),
                low |-> Len(res.bySeverity.low)],
   detections |->
     [k \in 1..Len(res.detections) |->
        LET d == res.detections[k]
        IN  [file |-> PathString(d.file),
             line |-> d.line,
             pattern |-> d.pattern,
             matchedText |-> d.matchedText,
             severity |-> d.severity,
             risk |-> d.risk,
             fix |-> d.fix]]]

\* the object formatAsJson hands to JSON.stringify
jsonObject(res) ==
  [scannedFiles |-> res.scannedFiles,
   totalDetections |-> res.totalDetections,
   summary |-> [high |-> Len(res.bySeverity.high),
                medium |-> Len(res.bySeverity.medium),
                low |-> Len(res.bySeverity.low)],
   detections |->
     [k \in 1..Len(res.detections) |->
        LET d == res.detections[k]
        IN  [file |-> PathString(d.file),
             line |-> d.line,
             pattern |-> d.pattern,
             matchedText |-> d.matchedText,
             severity |-> d.severity,
             risk |-> d.risk,
             fix |-> d.fix]]]

\* JSON's text of a string: quoted, with ", \ and the newline escaped
jsonEscape(str) ==
  Concat([i \in 1..Len(str) |->
            LET c == SubSeq(str, i, i)
            IN  CASE c = "\n" -> "\\n"
                  [] c = "\"" -> "\\\""
                  [] c = "\\" -> "\\\\"
                  [] OTHER -> c])

jsonString(str) == "\"" \o jsonEscape(str) \o "\""

\* JSON.stringify of the object of formatAsJson: the document as the tree of its
\* keys, every number and string being its JSON text
formatAsJson(res) ==
  LET o == jsonObject(res)
  IN  [scannedFiles |-> ToString(o.scannedFiles),
       totalDetections |-> ToString(o.totalDetections),
       summary |-> [high |-> ToString(o.summary.high),
                    medium |-> ToString(o.summary.medium),
                    low |-> ToString(o.summary.low)],
       detections |->
         [k \in 1..Len(o.detections) |->
            LET d == o.detections[k]
            IN  [file |-> jsonString(d.file),
                 line |-> ToString(d.line),
                 pattern |-> jsonString(d.pattern),
                 matchedText |-> jsonString(d.matchedText),
                 severity |-> jsonString(d.severity),
                 risk |-> jsonString(d.risk),
                 fix |-> jsonString(d.fix)]]]


\* ------------------------------------------------------------------- inputs

\* the arguments a run can be given
ArgSet == {"--json", "--ci", "--quiet", "--help", "-h", "--verbose", "-v", "tests"}

\* argument lists of at most MaxArgs different arguments
ArgLists ==
  {a \in UNION {[1..n -> ArgSet] : n \in 0..MaxArgs} :
     \A i, j \in 1..Len(a) : i # j => a[i] # a[j]}

\* file contents of at most MaxLen lexemes
Contents == UNION {[1..n -> Lexemes] : n \in 0..MaxLen}

\* one test file with any content
ScanTrees == {<<File("a.test.ts", c, TRUE)>> : c \in Contents}

\* a test file beside a directory tests holding another, which may be unreadable,
\* as the directory may be
CliTrees ==
  {<<File("a.test.ts", c1, TRUE),
     Dir("tests", <<File("b.spec.js", c2, rf), File("c.test.tsx", <<"rand">>, TRUE)>>, rd)>> :
     c1 \in {<<>>, <<"trunc", "timeout", "now">>},
     c2 \in {<<"now", "rand">>, <<"ttl">>},
     rf \in BOOLEAN, rd \in BOOLEAN}

\* directory listings: at most one directory, nested to depth d, before at most
\* one other entry
WalkFiles ==
  {File("a.test.ts", <<"now">>, TRUE), File("util.ts", <<"ttl">>, TRUE), Other("b.spec.js")}
WalkDirNames == {"src", "node_modules", "coverage"}
WalkLeaves == {<<>>} \cup {<<f>> : f \in WalkFiles}

RECURSIVE WalkTrees(_)
WalkTrees(d) ==
  IF d = 0 THEN WalkLeaves
  ELSE WalkLeaves
       \cup {<<Dir(n, sub, TRUE)>> \o fs :
               n \in WalkDirNames, sub \in WalkTrees(d - 1), fs \in WalkLeaves}

\* --------------------------------------------------------------------- main

Start(a, t) ==
  /\ args = a
  /\ tree = t
  /\ pc = "main"
  /\ jsonOutput = FALSE /\ ciMode = FALSE /\ quiet = FALSE /\ help = FALSE
  /\ targetDir = <<>>
  /\ stack = <<>>
  /\ visited = {}
  /\ files = <<>>
  /\ fileIdx = 0
  /\ allDetections = <<>>
  /\ byFile = <<>>
  /\ result = NoResult
  /\ stdout = <<>>
  /\ stderr = <<>>
  /\ exitCode = -1

Init ==
  \/ \E c \in ScanTrees : Start(<<>>, c)
  \/ \E a \in ArgLists, t \in CliTrees : Start(a, t)
  \/ \E t \in WalkTrees(MaxDepth) : Start(<<>>, t)

\* args.includes(flag)
includes(list, x) == \E i \in 1..Len(list) : list[i] = x

\* args.find((arg) => !arg.startsWith("--")): <<arg>>, or <<>> for undefined
findDirArg(list) ==
  LET hits == {i \in 1..Len(list) : ~startsWith(list[i], "--")}
  IN  IF hits = {} THEN <<>> ELSE <<list[Ascending(hits)[1]]>>

\* dirArg ? path.resolve(dirArg) : process.cwd()
targetOf(list) ==
  LET dirArg == findDirArg(list)
  IN  IF dirArg # <<>> /\ dirArg[1] # "" THEN resolve(dirArg[1]) ELSE cwd

\* main, lines 55-61: the flags
ParseArgs ==
  /\ pc = "main"
  /\ jsonOutput' = includes(args, "--json")
  /\ ciMode' = includes(args, "--ci")
  /\ quiet' = includes(args, "--quiet")
  /\ help' = (includes(args, "--help") \/ includes(args, "-h"))
  /\ pc' = "flags"
  /\ UNCHANGED <<args, tree, targetDir, stack, visited, files, fileIdx, allDetections,
                 byFile, result, stdout, stderr, exitCode>>

\* main, lines 63-66: printHelp() and process.exit(0)
Help ==
  /\ pc = "flags"
  /\ help
  /\ stdout' = Append(stdout, [what |-> "help", body |-> "Flaky Test Detector"])
  /\ exitCode' = 0
  /\ pc' = "exit"
  /\ UNCHANGED <<args, tree, jsonOutput, ciMode, quiet, help, targetDir, stack, visited,
                 files, fileIdx, allDetections, byFile, result, stderr>>

\* main, lines 69-77: the target, the banner, and the call of scanDirectory, which
\* calls findTestFiles(dir)
SelectTarget ==
  /\ pc = "flags"
  /\ ~help
  /\ targetDir' = targetOf(args)
  /\ stderr' = IF ~quiet
               THEN Append(stderr, [what |-> "Scanning", about |-> PathString(targetOf(args))])
               ELSE stderr
  /\ stack' = <<[dir |-> targetOf(args), entries |-> <<>>, i |-> 0]>>
  /\ pc' = "find"
  /\ UNCHANGED <<args, tree, jsonOutput, ciMode, quiet, help, visited, files, fileIdx,
                 allDetections, byFile, result, stdout, exitCode>>


\* ------------------------------------------------------------- findTestFiles

\* the directory names findTestFiles skips
ignoredDirs == {"node_modules", "dist", "build", ".git", "coverage"}

\* the endings of a test file's name
testSuffixes == {".test.ts", ".spec.ts", ".test.tsx", ".spec.tsx", ".test.js", ".spec.js"}

\* isIgnored with coverage left out of the list
isIgnored_noCoverage(name) == name \in {"node_modules", "dist", "build", ".git"}

isIgnored(name) == name \in ignoredDirs
isTestName(name) == \E suffix \in testSuffixes : endsWith(name, suffix)

\* the innermost call and the entry its loop is at
top == stack[Len(stack)]
entry == top.entries[top.i]
inLoop == pc = "find" /\ top.i >= 1 /\ top.i <= Len(top.entries)

\* the stack with the innermost call's loop moved to its next entry
advanced == [stack EXCEPT ![Len(stack)].i = @ + 1]

\* the return of the innermost call; the outermost returns to scanDirectory
FindPop ==
  /\ stack' = SubSeq(stack, 1, Len(stack) - 1)
  /\ pc' = IF Len(stack) = 1 THEN "scan" ELSE "find"
  /\ fileIdx' = IF Len(stack) = 1 THEN 1 ELSE fileIdx

\* lines 146-148: the directory does not exist
FindMissing ==
  /\ pc = "find" /\ top.i = 0
  /\ ~existsSync(top.dir)
  /\ FindPop
  /\ UNCHANGED <<args, tree, jsonOutput, ciMode, quiet, help, targetDir, visited, files,
                 allDetections, byFile, result, stdout, stderr, exitCode>>

\* line 150: fs.readdirSync(dir, { withFileTypes: true })
FindReaddir ==
  /\ pc = "find" /\ top.i = 0
  /\ existsSync(top.dir)
  /\ Lookup(top.dir).kind = "dir" /\ Lookup(top.dir).readable
  /\ stack' = [stack EXCEPT ![Len(stack)].entries = Lookup(top.dir).entries,
                            ![Len(stack)].i = 1]
  /\ visited' = visited \cup {top.dir}
  /\ UNCHANGED <<args, tree, pc, jsonOutput, ciMode, quiet, help, targetDir, files, fileIdx,
                 allDetections, byFile, result, stdout, stderr, exitCode>>

\* line 150 throws (the path is no directory, or may not be read): nothing up to
\* main catches it, and the runtime ends the process with status 1
FindThrow ==
  /\ pc = "find" /\ top.i = 0
  /\ existsSync(top.dir)
  /\ ~(Lookup(top.dir).kind = "dir" /\ Lookup(top.dir).readable)
  /\ stderr' = Append(stderr, [what |-> "Uncaught", about |-> PathString(top.dir)])
  /\ exitCode' = 1
  /\ pc' = "exit"
  /\ UNCHANGED <<args, tree, jsonOutput, ciMode, quiet, help, targetDir, stack, visited,
                 files, fileIdx, allDetections, byFile, result, stdout>>

\* lines 156-163: a directory of the ignore list
FindSkipIgnored ==
  /\ inLoop
  /\ entry.kind = "dir" /\ isIgnored(entry.name)
  /\ stack' = advanced
  /\ UNCHANGED <<args, tree, pc, jsonOutput, ciMode, quiet, help, targetDir, visited, files,
                 fileIdx, allDetections, byFile, result, stdout, stderr, exitCode>>

\* line 164: findTestFiles(fullPath, files)
FindDescend ==
  /\ inLoop
  /\ entry.kind = "dir" /\ ~isIgnored(entry.name)
  /\ stack' = Append(advanced, [dir |-> join(top.dir, entry.name), entries |-> <<>>, i |-> 0])
  /\ UNCHANGED <<args, tree, pc, jsonOutput, ciMode, quiet, help, targetDir, visited, files,
                 fileIdx, allDetections, byFile, result, stdout, stderr, exitCode>>

\* lines 165-175: files.push(fullPath)
FindCollect ==
  /\ inLoop
  /\ entry.kind = "file" /\ isTestName(entry.name)
  /\ files' = Append(files, join(top.dir, entry.name))
  /\ stack' = advanced
  /\ UNCHANGED <<args, tree, pc, jsonOutput, ciMode, quiet, help, targetDir, visited,
                 fileIdx, allDetections, byFile, result, stdout, stderr, exitCode>>

\* neither branch of lines 156-175
FindSkipEntry ==
  /\ inLoop
  /\ entry.kind # "dir"
  /\ ~(entry.kind = "file" /\ isTestName(entry.name))
  /\ stack' = advanced
  /\ UNCHANGED <<args, tree, pc, jsonOutput, ciMode, quiet, help, targetDir, visited, files,
                 fileIdx, allDetections, byFile, result, stdout, stderr, exitCode>>

\* line 178: return files
FindReturn ==
  /\ pc = "find" /\ top.i > Len(top.entries)
  /\ FindPop
  /\ UNCHANGED <<args, tree, jsonOutput, ciMode, quiet, help, targetDir, visited, files,
                 allDetections, byFile, result, stdout, stderr, exitCode>>

\* ------------------------------------------------------------- scanDirectory

\* lines 282-288: one turn of `for (const file of testFiles)`
ScanNext ==
  /\ pc = "scan" /\ fileIdx <= Len(files)
  /\ \E scanned \in {scanFile(files[fileIdx])} :
     LET file == files[fileIdx]
         fileDetections == scanned.detections
     IN  /\ stderr' = stderr \o scanned.errors
         /\ allDetections' = IF Len(fileDetections) > 0
                             THEN allDetections \o fileDetections
                             ELSE allDetections
         /\ byFile' = IF Len(fileDetections) > 0
                      THEN mapSet(byFile, file, fileDetections)
                      ELSE byFile
  /\ fileIdx' = fileIdx + 1
  /\ UNCHANGED <<args, tree, pc, jsonOutput, ciMode, quiet, help, targetDir, stack, visited,
                 files, result, stdout, exitCode>>

\* lines 290-303: the ScanResult, returned to main
ScanReturn ==
  /\ pc = "scan" /\ fileIdx > Len(files)
  /\ result' = scanResult(files, allDetections, byFile)
  /\ pc' = "report"
  /\ UNCHANGED <<args, tree, jsonOutput, ciMode, quiet, help, targetDir, stack, visited,
                 files, fileIdx, allDetections, byFile, stdout, stderr, exitCode>>

\* ------------------------------------------------------------ main, the rest

\* main, lines 80-84
Report ==
  /\ pc = "report"
  /\ stdout' = IF jsonOutput
               THEN Append(stdout, [what |-> "json", body |-> formatAsJson(result)])
               ELSE IF ~quiet
               THEN Append(stdout, [what |-> "markdown", body |-> formatAsMarkdown(result)])
               ELSE stdout
  /\ pc' = "ci"
  /\ UNCHANGED <<args, tree, jsonOutput, ciMode, quiet, help, targetDir, stack, visited,
                 files, fileIdx, allDetections, byFile, result, stderr, exitCode>>

\* ciFails on any detection at all
ciFails_anyDetection(ci, res) == ci /\ res.totalDetections > 0

\* main's test of line 87
ciFails(ci, res) == ci /\ Len(res.bySeverity.high) > 0

\* main, lines 87-94: process.exit(1)
CiFail ==
  /\ pc = "ci"
  /\ ciFails(ciMode, result)
  /\ stderr' = IF ~quiet
               THEN Append(stderr, [what |-> "CI Check Failed",
                                    about |-> ToString(Len(result.bySeverity.high))])
               ELSE stderr
  /\ exitCode' = 1
  /\ pc' = "exit"
  /\ UNCHANGED <<args, tree, jsonOutput, ciMode, quiet, help, targetDir, stack, visited,
                 files, fileIdx, allDetections, byFile, result, stdout>>

\* main, lines 97-100: the summary; main returns and the process ends with status 0
Finish ==
  /\ pc = "ci"
  /\ ~ciFails(ciMode, result)
  /\ stderr' = IF ~quiet
               THEN Append(stderr, [what |-> "Scan complete",
                                    about |-> ToString(result.scannedFiles) \o " files, "
                                              \o ToString(result.totalDetections)
                                              \o " patterns found."])
               ELSE stderr
  /\ exitCode' = 0
  /\ pc' = "exit"
  /\ UNCHANGED <<args, tree, jsonOutput, ciMode, quiet, help, targetDir, stack, visited,
                 files, fileIdx, allDetections, byFile, result, stdout>>

Next ==
  \/ ParseArgs
  \/ Help
  \/ SelectTarget
  \/ FindMissing
  \/ FindReaddir
  \/ FindThrow
  \/ FindSkipIgnored
  \/ FindDescend
  \/ FindCollect
  \/ FindSkipEntry
  \/ FindReturn
  \/ ScanNext
  \/ ScanReturn
  \/ Report
  \/ CiFail
  \/ Finish

Spec == Init /\ [][Next]_vars


\* ============================================================== properties

\* scanDirectory has returned its ScanResult to main
HasResult == result.scannedFiles # -1

\* scanDirectory returns: main holds the ScanResult and has done nothing with it
\* yet (no later step of main changes result or files)
Returns == pc = "report"

\* the elements of seq at the indices idx, in order
Pick(seq, idx) == [j \in 1..Cardinality(idx) |-> seq[Ascending(idx)[j]]]

\* how many times each element occurs in seq
BagOf(seq) ==
  [x \in {seq[k] : k \in 1..Len(seq)} |-> Cardinality({k \in 1..Len(seq) : seq[k] = x})]

\* the discovered files that could be read
ReadableFiles == {k \in 1..Len(files) : Lookup(files[k]).kind = "file" /\ Lookup(files[k]).readable}

\* the detections of the result for file f and the r-th rule, in result order
DetectionsOf(f, r) ==
  Pick(result.detections,
       {k \in 1..Len(result.detections) :
          result.detections[k].file = f
          /\ result.detections[k].pattern = FLAKY_PATTERNS[r].name})

\* a mitigation signature lies wholly inside [max(0, i - 2000), i) of content
SignatureInWindow(content, i) ==
  \E k \in 1..Len(content) :
    \E m \in 1..Len(mockPatterns) :
      \E o \in LexMocks[content[k]][m] :
        LET s == Offset(content, k) + o.index
        IN  s >= Max(0, i - 2000) /\ s + o.len <= i

\* a mitigation signature starts at or after offset i of content
SignatureAfter(content, i) ==
  \E k \in 1..Len(content) :
    \E m \in 1..Len(mockPatterns) :
      \E o \in LexMocks[content[k]][m] : Offset(content, k) + o.index >= i

\* the number of newline characters of content before offset i
NewlinesBefore(content, i) ==
  SumSeq([k \in 1..Len(content) |->
              Cardinality({p \in LexNewlines[content[k]] : Offset(content, k) + p < i})])

HighRules == {r \in 1..Len(FLAKY_PATTERNS) : FLAKY_PATTERNS[r].severity = "high"}
OtherRules == {r \in 1..Len(FLAKY_PATTERNS) : FLAKY_PATTERNS[r].severity # "high"}

\* C1: in every ScanResult scanDirectory returns, the three bySeverity lists
\* partition the flat detection list (each detection, counted with its
\* multiplicity, is in exactly the list of its own severity, and the sizes add up
\* to totalDetections = detections.length), and the byFile groups have distinct
\* keys, hold only detections of the file that keys them, and concatenated in
\* order are exactly the flat list.
Thm_C1 ==
  Returns =>
    LET D == result.detections
        high == result.bySeverity.high
        medium == result.bySeverity.medium
        low == result.bySeverity.low
        groups == result.byFile
    IN  /\ Len(high) + Len(medium) + Len(low) = result.totalDetections
        /\ result.totalDetections = Len(D)
        /\ \A k \in 1..Len(high) : high[k].severity = "high"
        /\ \A k \in 1..Len(medium) : medium[k].severity = "medium"
        /\ \A k \in 1..Len(low) : low[k].severity = "low"
        /\ BagOf(D) = BagOf(high) (+) BagOf(medium) (+) BagOf(low)
        /\ \A i, j \in 1..Len(groups) : groups[i].key = groups[j].key => i = j
        /\ \A i \in 1..Len(groups) :
             \A k \in 1..Len(groups[i].value) : groups[i].value[k].file = groups[i].key
        /\ Flatten([i \in 1..Len(groups) |-> groups[i].value]) = D

\* C1's case: a result with detections of all three severities from two files,
\* one discovered file having been unreadable
Wit_C1 ==
  /\ Returns
  /\ Len(result.bySeverity.high) > 0
  /\ Len(result.bySeverity.medium) > 0
  /\ Len(result.bySeverity.low) > 0
  /\ Len(result.byFile) >= 2
  /\ \E k \in 1..Len(files) : k \notin ReadableFiles

Thm_C3 ==
  Returns =>
    \A k \in ReadableFiles :
      \A r \in HighRules :
        LET content == Lookup(files[k]).content
            matches == regexExecAll(content, r)
            found == DetectionsOf(files[k], r)
        IN  /\ Len(found) = Len(matches)
            /\ \A j \in 1..Len(found) :
                 /\ found[j].severity = "high"
                 /\ found[j].matchedText = matches[j].text

\* C3's case: a 1-second TTL right after vi.useFakeTimers() is reported
Wit_C3 ==
  /\ Returns
  /\ \E k \in ReadableFiles :
       LET content == Lookup(files[k]).content
           matches == regexExecAll(content, 1)
       IN  /\ Len(matches) > 0
           /\ SignatureInWindow(content, matches[1].index)
           /\ Len(DetectionsOf(files[k], 1)) = Len(matches)


\* C4: a run with --ci that has reported ends with a non-zero status exactly when
\* the scan produced a high-severity detection, whatever other flags it has.
Thm_C4 ==
  (pc = "exit" /\ includes(args, "--ci") /\ HasResult) =>
    (exitCode # 0 <=>
       \E k \in 1..Len(result.detections) : result.detections[k].severity = "high")

\* C4's case: --ci together with --json and --quiet, a high detection, status 1
Wit_C4 ==
  /\ pc = "exit" /\ HasResult
  /\ includes(args, "--ci") /\ includes(args, "--json") /\ includes(args, "--quiet")
  /\ \E k \in 1..Len(result.detections) : result.detections[k].severity = "high"
  /\ exitCode = 1

\* C5: when the scan returns, every discovered file was scanned; each file that
\* could not be read has exactly one diagnostic on the error channel and no
\* detection and no byFile group; and the detections are those of the readable
\* files, in order, as if the unreadable ones were not there.
Thm_C5 ==
  Returns =>
    LET bad == (1..Len(files)) \ ReadableFiles
        good == Pick(files, ReadableFiles)
    IN  /\ fileIdx = Len(files) + 1
        /\ result.scannedFiles = Len(files)
        /\ \A k \in bad :
             /\ Cardinality({i \in 1..Len(stderr) :
                               stderr[i] = [what |-> "Error scanning",
                                            about |-> PathString(files[k])]}) = 1
             /\ \A i \in 1..Len(result.detections) : result.detections[i].file # files[k]
             /\ \A i \in 1..Len(result.byFile) : result.byFile[i].key # files[k]
        /\ Cardinality({i \in 1..Len(stderr) : stderr[i].what = "Error scanning"})
             = Cardinality(bad)
        /\ result.detections = Flatten([j \in 1..Len(good) |-> scanFile(good[j]).detections])

\* C5's case: an unreadable file between two files that yield detections
Wit_C5 ==
  /\ Returns
  /\ \E k \in (1..Len(files)) \ ReadableFiles :
       /\ \E i \in 1..Len(result.detections) :
            \E j \in 1..(k - 1) : result.detections[i].file = files[j]
       /\ \E i \in 1..Len(result.detections) :
            \E j \in (k + 1)..Len(files) : result.detections[i].file = files[j]

\* every entry below a listing: [path, kind], the path from dir on
RECURSIVE NodesUnder(_, _)
NodesUnder(entries, dir) ==
  UNION {{[path |-> join(dir, entries[k].name), kind |-> entries[k].kind]}
         \cup (IF entries[k].kind = "dir"
               THEN NodesUnder(entries[k].entries, join(dir, entries[k].name))
               ELSE {}) : k \in 1..Len(entries)}

\* the entries below the scanned root
NodesBelowTarget ==
  IF Lookup(targetDir).kind = "dir" THEN NodesUnder(Lookup(targetDir).entries, targetDir)
  ELSE {}

\* a path has, below the scanned root and among its first n names, a directory of
\* the ignore list
ThroughIgnored(path, n) ==
  \E j \in (Len(targetDir) + 1)..n :
    path[j] \in {"node_modules", "dist", "build", ".git", "coverage"}

\* a name ends in one of the six test-file suffixes
HasTestSuffix(name) ==
  \E x \in {"test", "spec"} :
    \E y \in {"ts", "tsx", "js"} : endsWith(name, "." \o x \o "." \o y)

\* findTestFiles has returned to scanDirectory
Walked == pc \in {"scan", "report", "ci"} \/ (pc = "exit" /\ HasResult)

\* C6: findTestFiles never reads a directory that is, or lies below, a directory
\* of the ignore list under the root; when it returns, no file of its result lies
\* below such a directory, every other directory under the root was read, and its
\* result holds, exactly once each, the regular files with a test-file suffix of
\* the directories it read.
Thm_C6 ==
  /\ \A d \in visited : ~ThroughIgnored(d, Len(d))
  /\ Walked =>
       /\ \A k \in 1..Len(files) : ~ThroughIgnored(files[k], Len(files[k]) - 1)
       /\ \A i, j \in 1..Len(files) : files[i] = files[j] => i = j
       /\ {files[k] : k \in 1..Len(files)}
            = {n.path : n \in {m \in NodesBelowTarget :
                                 /\ m.kind = "file"
                                 /\ HasTestSuffix(basename(m.path))
                                 /\ ~ThroughIgnored(m.path, Len(m.path) - 1)}}
       /\ visited
            = (IF Lookup(targetDir).kind = "dir" THEN {targetDir} ELSE {})
              \cup {n.path : n \in {m \in NodesBelowTarget :
                                      m.kind = "dir" /\ ~ThroughIgnored(m.path, Len(m.path))}}

\* C6's case: a test file in an ignored directory that is nested in an ordinary
\* directory, beside test files that are returned
Wit_C6 ==
  /\ Walked
  /\ files # <<>>
  /\ \E n \in NodesBelowTarget :
       /\ n.kind = "file" /\ HasTestSuffix(basename(n.path))
       /\ Len(n.path) >= Len(targetDir) + 3
       /\ n.path[Len(n.path) - 1] \in {"node_modules", "dist", "build", ".git", "coverage"}

\* C7: the detections of a rule in a readable file are its accepted matches in
\* order, and each one's line is 1 plus the number of newline characters before
\* the match start.
Thm_C7 ==
  Returns =>
    \A k \in ReadableFiles :
      \A r \in 1..Len(FLAKY_PATTERNS) :
        LET content == Lookup(files[k]).content
            matches == regexExecAll(content, r)
            accepted == {i \in 1..Len(matches) :
                           r \in HighRules \/ ~SignatureInWindow(content, matches[i].index)}
            found == DetectionsOf(files[k], r)
        IN  /\ Len(found) = Cardinality(accepted)
            /\ \A j \in 1..Len(found) :
                 found[j].line = 1 + NewlinesBefore(content, Pick(matches, accepted)[j].index)

\* C7's case: a match spanning two lines that starts after the first line, and a
\* later match on the last line of the file
Wit_C7 ==
  /\ Returns
  /\ \E k \in ReadableFiles :
       LET content == Lookup(files[k]).content
           spanning == DetectionsOf(files[k], 3)
           lastLine == 1 + NewlinesBefore(content, ContentLen(content))
       IN  /\ Len(spanning) = 1
           /\ spanning[1].matchedText = "setTimeout(fn,\n50)"
           /\ spanning[1].line >= 2
           /\ \E i \in 1..Len(result.detections) :
                /\ result.detections[i].file = files[k]
                /\ result.detections[i].line = lastLine
                /\ result.detections[i].line > spanning[1].line


\* JSON.parse of the text of a string: the quotes dropped, the escapes undone
jsonParseString(text) ==
  LET body == SubSeq(text, 2, Len(text) - 1)
      at(i) == SubSeq(body, i, i)
      isBackslash(i) == i >= 1 /\ at(i) = "\\"
      \* the backslashes that end right before position i
      run(i) == (i - 1) - Max(0, CHOOSE j \in 0..(i - 1) :
                                   /\ j = 0 \/ ~isBackslash(j)
                                   /\ \A l \in (j + 1)..(i - 1) : isBackslash(l))
      startsEscape(i) == isBackslash(i) /\ run(i) % 2 = 0
  IN  Concat([i \in 1..Len(body) |->
                IF ~isBackslash(i) /\ ~isBackslash(i - 1) THEN at(i)
                ELSE IF startsEscape(i) THEN ""
                ELSE IF startsEscape(i - 1) THEN (IF at(i) = "n" THEN "\n" ELSE at(i))
                ELSE at(i)])

\* JSON.parse of the text of a natural number
RECURSIVE jsonParseNumber(_)
jsonParseNumber(text) ==
  IF text = "" THEN 0
  ELSE LET c == SubSeq(text, Len(text), Len(text))
           digit == CHOOSE v \in 0..9 : ToString(v) = c
       IN  10 * jsonParseNumber(SubSeq(text, 1, Len(text) - 1)) + digit

\* C8: the document formatAsJson writes, parsed back, has the result's
\* scannedFiles and totalDetections, the sizes of the three bySeverity lists as
\* summary, and one entry per detection of the flat list, in order, with exactly
\* the keys file, line, pattern, matchedText, severity, risk and fix, and their
\* values.
Thm_C8 ==
  \A i \in 1..Len(stdout) :
    stdout[i].what = "json" =>
      LET doc == stdout[i].body
          D == result.detections
      IN  /\ HasResult
          /\ jsonParseNumber(doc.scannedFiles) = result.scannedFiles
          /\ jsonParseNumber(doc.totalDetections) = result.totalDetections
          /\ jsonParseNumber(doc.summary.high) = Len(result.bySeverity.high)
          /\ jsonParseNumber(doc.summary.medium) = Len(result.bySeverity.medium)
          /\ jsonParseNumber(doc.summary.low) = Len(result.bySeverity.low)
          /\ Len(doc.detections) = result.totalDetections
          /\ Len(doc.detections) = Len(D)
          /\ \A k \in 1..Len(doc.detections) :
               LET e == doc.detections[k]
               IN  /\ DOMAIN e = {"file", "line", "pattern", "matchedText",
                                  "severity", "risk", "fix"}
                   /\ jsonParseString(e.file) = PathString(D[k].file)
                   /\ jsonParseNumber(e.line) = D[k].line
                   /\ jsonParseString(e.pattern) = D[k].pattern
                   /\ jsonParseString(e.matchedText) = D[k].matchedText
                   /\ jsonParseString(e.severity) = D[k].severity
                   /\ jsonParseString(e.risk) = D[k].risk
                   /\ jsonParseString(e.fix) = D[k].fix

\* C8's case: a JSON document of detections of all three severities, different
\* in number, one of them with a matched text that holds a newline
Wit_C8 ==
  /\ HasResult
  /\ \E i \in 1..Len(stdout) : stdout[i].what = "json"
  /\ Len(result.bySeverity.high) > Len(result.bySeverity.medium)
  /\ Len(result.bySeverity.medium) > Len(result.bySeverity.low)
  /\ Len(result.bySeverity.low) > 0
  /\ \E k \in 1..Len(result.detections) :
       result.detections[k].matchedText = "setTimeout(fn,\n50)"

\* C9 as claimed: with no detections the Markdown report is the all-clear line
\* alone.
Cex_C9 ==
  \A i \in 1..Len(stdout) :
    (stdout[i].what = "markdown" /\ result.totalDetections = 0) =>
      stdout[i].body \in {"No flaky patterns detected. Your tests look deterministic!",
                          "No flaky patterns detected. Your tests look deterministic!\n"}

\* C9, amended: with no detections the Markdown report is the heading, the counts
\* line and the all-clear line, each followed by an empty line but the last, and
\* nothing else.
Thm_C9 ==
  \A i \in 1..Len(stdout) :
    (stdout[i].what = "markdown" /\ result.totalDetections = 0) =>
      stdout[i].body =
        "## Flaky Test Analysis\n\nScanned **" \o ToString(result.scannedFiles)
        \o "** test files, found **0** potential flaky patterns.\n\n"
        \o "No flaky patterns detected. Your tests look deterministic!\n"

\* C9's case: the Markdown report of a scan of a directory that does not exist
Wit_C9 ==
  /\ HasResult
  /\ ~existsSync(targetDir)
  /\ result.scannedFiles = 0 /\ result.totalDetections = 0
  /\ \E i \in 1..Len(stdout) : stdout[i].what = "markdown"

\* the directory C10 claims is scanned: the first argument that does not start
\* with a dash, resolved, or the working directory
ClaimedTarget(list) ==
  LET hits == {i \in 1..Len(list) : ~startsWith(list[i], "-")}
  IN  IF hits = {} THEN cwd ELSE resolve(list[Ascending(hits)[1]])

\* C10 as claimed: without --help and -h, no flag, with two dashes or one, is the
\* scan target: the target is the first argument that is no flag, or the working
\* directory.
Cex_C10 ==
  (pc \notin {"main", "flags"} /\ ~help) => targetDir = ClaimedTarget(args)

\* the entries of the error channel that are error diagnostics: a per-file read
\* error, an uncaught exception
ErrorDiagnostics == {"Error scanning", "Uncaught"}

\* C11 as claimed: in a run with --quiet and without --help and -h, whatever the
\* other arguments, nothing is ever written to standard output (no Markdown and
\* no JSON report), the error channel holds error diagnostics only (no banner,
\* no CI-failure message, no final counts), and a --ci run that has reported
\* ends with status 1 exactly when the result holds a high-severity detection.
Cex_C11 ==
  (includes(args, "--quiet") /\ ~includes(args, "--help") /\ ~includes(args, "-h")) =>
    /\ stdout = <<>>
    /\ \A i \in 1..Len(stderr) : stderr[i].what \in ErrorDiagnostics
    /\ (pc = "exit" /\ HasResult /\ includes(args, "--ci")) =>
         (exitCode = 1 <=> Len(result.bySeverity.high) > 0)

\* what identifies a detection in a report: its file, rule, matched text and line
Key(d) == [file |-> d.file, pattern |-> d.pattern, matchedText |-> d.matchedText,
           line |-> d.line]

\* the accepted matches of the r-th rule in the file f, as keys, by ascending
\* offset: every match of a high rule, the matches of the other rules that have
\* no mitigation signature in the window before them
ExpectedOfRule(f, r) ==
  LET content == Lookup(f).content
      matches == regexExecAll(content, r)
      accepted == {i \in 1..Len(matches) :
                     r \in HighRules \/ ~SignatureInWindow(content, matches[i].index)}
  IN  [j \in 1..Cardinality(accepted) |->
         LET m == Pick(matches, accepted)[j]
         IN  [file |-> f, pattern |-> FLAKY_PATTERNS[r].name, matchedText |-> m.text,
              line |-> 1 + NewlinesBefore(content, m.index)]]

\* the keys expected of the file f: rule after rule in catalog order
ExpectedOfFile(f) ==
  Flatten([r \in 1..Len(FLAKY_PATTERNS) |-> ExpectedOfRule(f, r)])

\* the detections of the flat list that have severity sev, in flat-list order
OfSeverity(sev) ==
  Pick(result.detections,
       {k \in 1..Len(result.detections) : result.detections[k].severity = sev})

\* the Markdown report of a result with detections, with its risk sections filled
\* from the flat list in flat-list order
ExpectedMarkdown ==
  LET high == OfSeverity("high")
      medium == OfSeverity("medium")
      low == OfSeverity("low")
  IN  joinLines(
        << "## Flaky Test Analysis\n",
           "Scanned **" \o ToString(result.scannedFiles) \o "** test files, found **"
           \o ToString(Len(result.detections)) \o "** potential flaky patterns.\n",
           "### Summary\n",
           "| Severity | Count |",
           "|----------|-------|",
           "| High | " \o ToString(Len(high)) \o " |",
           "| Medium | " \o ToString(Len(medium)) \o " |",
           "| Low | " \o ToString(Len(low)) \o " |",
           "" >>
        \o (IF Len(high) > 0
            THEN << "### High Risk\n" >> \o Flatten([k \in 1..Len(high) |-> mdHigh(high[k])])
            ELSE <<>>)
        \o (IF Len(medium) > 0
            THEN << "### Medium Risk\n" >>
                 \o Flatten([k \in 1..Len(medium) |-> mdMedium(medium[k])])
            ELSE <<>>)
        \o (IF Len(low) > 0
            THEN << "### Low Risk\n",
                    "<details><summary>Show " \o ToString(Len(low))
                    \o " low-risk patterns</summary>\n" >>
                 \o Flatten([k \in 1..Len(low) |-> mdLow(low[k])])
                 \o << "\n</details>\n" >>
            ELSE <<>>)
        \o << "### Recommended Actions\n" >>
        \o (IF Len(high) > 0
            THEN << "1. **Immediate**: Fix all HIGH severity issues before merging",
                    "2. Add 'vi.useFakeTimers()' in 'beforeEach' for time-dependent tests",
                    "3. Use 'vi.setSystemTime()' for deterministic date/time" >>
            ELSE <<>>)
        \o (IF Len(medium) > 0
            THEN << "4. Review MEDIUM severity patterns for potential issues" >>
            ELSE <<>>)
        \o << "5. Consider adding this check to CI to prevent new flaky patterns\n" >>,
        "\n")

\* main has printed its report and done nothing after it
Reported == pc = "ci"

\* C12: when scanDirectory returns, the flat list is, file after file in
\* discovery order, rule after rule in catalog order, the accepted matches of the
\* rule in ascending offset, none dropped as a duplicate; and once main has
\* printed, the JSON document lists the detections in flat-list order and the
\* Markdown report's High, Medium and Low sections hold the detections of their
\* severity in flat-list order.
Thm_C12 ==
  /\ Returns =>
       LET good == Pick(files, ReadableFiles)
       IN  /\ [k \in 1..Len(result.detections) |-> Key(result.detections[k])]
                = Flatten([j \in 1..Len(good) |-> ExpectedOfFile(good[j])])
           /\ \A j \in 1..Len(good) :
                \A r \in 1..Len(FLAKY_PATTERNS) :
                  LET matches == regexExecAll(Lookup(good[j]).content, r)
                  IN  \A i \in 1..(Len(matches) - 1) : matches[i].index < matches[i + 1].index
  /\ Reported =>
       \A i \in 1..Len(stdout) :
         /\ stdout[i].what = "json" =>
              LET listed == stdout[i].body.detections
              IN  /\ Len(listed) = Len(result.detections)
                  /\ \A k \in 1..Len(listed) :
                       /\ jsonParseString(listed[k].file) = PathString(result.detections[k].file)
                       /\ jsonParseString(listed[k].pattern) = result.detections[k].pattern
                       /\ jsonParseString(listed[k].matchedText)
                            = result.detections[k].matchedText
                       /\ jsonParseNumber(listed[k].line) = result.detections[k].line
         /\ (stdout[i].what = "markdown" /\ Len(result.detections) > 0) =>
              stdout[i].body = ExpectedMarkdown

\* C12's case: a Markdown report of a scan of several files, where one place of
\* a file gave detections of two rules, a rule gave two detections in one file,
\* and detections of one severity come from two files
Wit_C12 ==
  /\ Reported
  /\ \E i \in 1..Len(stdout) : stdout[i].what = "markdown"
  /\ LET D == result.detections
     IN  /\ \E a, b \in 1..Len(D) :
              /\ a < b /\ D[a].file = D[b].file /\ D[a].line = D[b].line
              /\ D[a].pattern = "Second truncation" /\ D[b].pattern = "Unmocked Date.now()"
         /\ \E a, b \in 1..Len(D) :
              /\ a < b /\ D[a].file = D[b].file /\ D[a].pattern = D[b].pattern
              /\ D[a].line < D[b].line
         /\ \E a, b \in 1..Len(D) :
              /\ a < b /\ D[a].file # D[b].file /\ D[a].severity = D[b].severity

=============================================================================
